---------------------------- MODULE Spec2Model ----------------------------
(***************************************************************************)
(* Weekly meal planning of ai-meal-planner-agent.                          *)
(*                                                                         *)
(* MealPlannerSpecialist (agents/meal_planner_agent.py): the diet/allergy  *)
(* filter, the repeat-avoiding selection over 7 days x 3 slots, the daily  *)
(* totals and scores, and the calorie normalization pass.  The plan holds  *)
(* REFERENCES to the catalog's recipe dicts (Python never copies them), so *)
(* the catalog is part of the mutable state.                               *)
(* SimpleMealGenerator (main_agent.py): the in-code sample catalog and its *)
(* per-day random selection.                                               *)
(***************************************************************************)
EXTENDS Integers, Sequences, FiniteSets, TLC

(***************************************************************************)
(* Bounds of the model.                                                    *)
(***************************************************************************)
\* generate_personalized_plan calls made on one planner in one behaviour
MaxCalls == 2

\* save_meal_feedback calls made in one behaviour
MaxSaves == 3

(***************************************************************************)
(* Generic helpers.                                                        *)
(***************************************************************************)
Abs(x) == IF x < 0 THEN -x ELSE x

Max(a, b) == IF a >= b THEN a ELSE b

Min(a, b) == IF a <= b THEN a ELSE b

RECURSIVE Gcd(_, _)
Gcd(a, b) == IF b = 0 THEN a ELSE Gcd(b, a % b)

RECURSIVE Pow2(_)
Pow2(n) == IF n = 0 THEN 1 ELSE 2 * Pow2(n - 1)

\* dict.get(key, default) on a record whose keys may be absent
Get(r, k, d) == IF k \in DOMAIN r THEN r[k] ELSE d

Range(s) == {s[i] : i \in DOMAIN s}

\* the entries AdvancedMemoryTools.save_meal_feedback keeps in the history file
HistoryLimit == 500

(***************************************************************************)
(* Python float arithmetic of the normalization pass, on integers.         *)
(*                                                                         *)
(*   adjustment_factor = target_weekly_calories / total_weekly_calories    *)
(*   int(value * adjustment_factor)                                        *)
(*                                                                         *)
(* Both operations round to a 53-bit significand.  For the magnitudes of   *)
(* the model the result is the exact quotient v*F/T truncated towards 0,   *)
(* except when T divides v*F and the factor F/T was rounded DOWN by so     *)
(* much that v*fl(F/T) rounds to the double below the exact integer n:     *)
(* then int() yields n-1 (e.g. int(49 * (1/49)) = 0).  With                *)
(*   2^a <= F/T < 2^(a+1),  r = (F * 2^(52-a)) mod T,  2^(e-1) < n <= 2^e  *)
(* the factor is rounded down iff 0 < 2r < T, and the product falls short  *)
(* iff v * r * 2^(2+a-e) > T.                                              *)
(***************************************************************************)
RECURSIVE FloorLog2Up(_, _, _)
\* largest a >= 0 with 2^a * T <= A   (A >= T)
FloorLog2Up(A, T, a) == IF 2 * T <= A THEN FloorLog2Up(A, 2 * T, a + 1) ELSE a

RECURSIVE FloorLog2Down(_, _, _)
\* -(smallest j with A * 2^j >= T)    (A < T)
FloorLog2Down(A, T, a) == IF A < T THEN FloorLog2Down(2 * A, T, a - 1) ELSE a

\* a with 2^a <= A/T < 2^(a+1)
FloorLog2Ratio(A, T) ==
    IF A >= T THEN FloorLog2Up(A, T, 0) ELSE FloorLog2Down(A, T, 0)

RECURSIVE CeilLog2From(_, _, _)
CeilLog2From(n, p, e) == IF p < n THEN CeilLog2From(n, 2 * p, e + 1) ELSE e

\* e with 2^(e-1) < n <= 2^e
CeilLog2(n) == CeilLog2From(n, 1, 0)

RECURSIVE ShiftMod(_, _, _)
\* (x * 2^k) mod T, eight bits at a time   (0 <= x < T < 2^23)
ShiftMod(x, k, T) ==
    IF k < 8 THEN (x * Pow2(k)) % T ELSE ShiftMod((x * 256) % T, k - 8, T)

RECURSIVE FracGreater(_, _, _, _)
\* a/b > c/d for a, c >= 0 and b, d > 0, by Euclid's steps (no large products)
FracGreater(a, b, c, d) ==
    LET qa == a \div b
        qc == c \div d
        ra == a % b
        rc == c % d
    IN  IF qa # qc THEN qa > qc
        ELSE IF ra = 0 THEN FALSE
        ELSE IF rc = 0 THEN TRUE
        ELSE FracGreater(d, rc, b, ra)

\* whether fl(v * fl(A/T)) is below the exact integer v*A/T   (A, T, v > 0, T | v*A)
FallsShort(v, A, T) ==
    LET n == (v * A) \div T
        a == FloorLog2Ratio(A, T)
        r == ShiftMod(A % T, 52 - a, T)
        e == CeilLog2(n)
        s == 2 + a - e
    IN  /\ 0 < 2 * r
        /\ 2 * r < T
        /\ IF s >= 0 THEN FracGreater(r * Pow2(s), T, 1, v)
                     ELSE FracGreater(r, T, Pow2(-s), v)

\* int(v * (F / T)) for integers v >= 0, F, T > 0
\* a scaling by the whole part of the factor: TotalMeetsTarget has to reject it
ScaleByWholeFactor(v, F, T) == v * (F \div T)

FloatScale(v, F, T) ==
    IF v = 0 \/ F = 0 THEN 0
    ELSE LET A == Abs(F)
             n == (v * A) \div T
             m == IF (v * A) % T = 0 /\ n >= 1 /\ FallsShort(v, A, T) THEN n - 1 ELSE n
         IN  IF F < 0 THEN -m ELSE m

(***************************************************************************)
(* Text.  A Python str is a sequence of one-character strings, so that     *)
(* str.lower(), json.dumps() and the substring test `a in s` are computed. *)
(***************************************************************************)
UpperCase == <<"A", "B", "C", "D", "E", "F", "G", "H", "I", "J", "K", "L", "M",
               "N", "O", "P", "Q", "R", "S", "T", "U", "V", "W", "X", "Y", "Z">>

LowerCase == <<"a", "b", "c", "d", "e", "f", "g", "h", "i", "j", "k", "l", "m",
               "n", "o", "p", "q", "r", "s", "t", "u", "v", "w", "x", "y", "z">>

\* str.lower() of one character
LowerChar(c) ==
    IF \E i \in DOMAIN UpperCase : UpperCase[i] = c
    THEN LowerCase[CHOOSE i \in DOMAIN UpperCase : UpperCase[i] = c]
    ELSE c

\* str.lower()
Lower(s) == [i \in DOMAIN s |-> LowerChar(s[i])]

\* Python's `a in s` on strings
IsSubstring(a, s) ==
    \E i \in 0..(Len(s) - Len(a)) : SubSeq(s, i + 1, i + Len(a)) = a

DigitChars == <<"0", "1", "2", "3", "4", "5", "6", "7", "8", "9">>

RECURSIVE Decimal(_)
\* str(n) of an int n >= 0, as json.dumps writes a number
Decimal(n) ==
    IF n < 10 THEN <<DigitChars[n + 1]>>
    ELSE Decimal(n \div 10) \o <<DigitChars[(n % 10) + 1]>>

\* json.dumps of one character of a string (ensure_ascii=True)
JsonChar(c) ==
    CASE c = "\"" -> <<"\\", "\"">>
      [] c = "\\" -> <<"\\", "\\">>
      [] c = "é"  -> <<"\\", "u", "0", "0", "e", "9">>
      [] OTHER    -> <<c>>

RECURSIVE JsonString(_)
JsonString(s) ==
    IF s = <<>> THEN <<>> ELSE JsonChar(Head(s)) \o JsonString(Tail(s))

RECURSIVE JsonItems(_)
\* the items of a dict, in insertion order: "key": value, "key": value
JsonItems(items) ==
    IF items = <<>> THEN <<>>
    ELSE <<"\"">> \o JsonString(items[1][1]) \o <<"\"", ":", " ">>
         \o Decimal(items[1][2])
         \o (IF Len(items) > 1 THEN <<",", " ">> ELSE <<>>)
         \o JsonItems(Tail(items))

\* json.dumps(d) of a dict of str -> int, given as its sequence of <<key, value>>
JsonDumps(items) == <<"{">> \o JsonItems(items) \o <<"}">>

(***************************************************************************)
(* Recipes.  A recipe dict is a record; a key the dict lacks is a field    *)
(* the record lacks.  "ingredients" is the dict's <<key, quantity>> items  *)
(* in insertion order.                                                     *)
(***************************************************************************)
\* for meal_type in ["breakfast", "lunch", "dinner"]
Slots == <<"breakfast", "lunch", "dinner">>

\* a week that forgets Sunday: WeekIsComplete has to reject it
DaysWithoutSunday ==
    <<"Monday", "Tuesday", "Wednesday", "Thursday", "Friday", "Saturday">>

days == <<"Monday", "Tuesday", "Wednesday", "Thursday", "Friday", "Saturday", "Sunday">>

\* for k in ["calories", "protein", "carbs", "fat"]
NutrientKeys == {"calories", "protein", "carbs", "fat"}

\* a title that leaves the meal type as written: EmptyPoolGivesFallback has to
\* reject it
TitleAsWritten(meal_type) == meal_type

\* str.title() of a meal type
Title(meal_type) ==
    CASE meal_type = "breakfast" -> "Breakfast"
      [] meal_type = "lunch"     -> "Lunch"
      [] meal_type = "dinner"    -> "Dinner"

create_fallback_meal(meal_type, diet_type) ==
    [name        |-> "Fallback " \o Title(meal_type),
     ingredients |-> << << <<"b", "a", "s", "i", "c", "_", "f", "o", "o", "d">>, 100 >>,
                        << <<"v", "e", "g", "e", "t", "a", "b", "l", "e", "s">>, 50 >> >>,
     calories    |-> 300,
     protein     |-> 15,
     carbs       |-> 40,
     fat         |-> 8,
     prep_time   |-> 15,
     type        |-> diet_type]

\* breakfast.get("calories", 300) + lunch.get("calories", 400) + dinner.get("calories", 350)
DefaultCalories(meal_type) ==
    CASE meal_type = "breakfast" -> 300
      [] meal_type = "lunch"     -> 400
      [] meal_type = "dinner"    -> 350

(***************************************************************************)
(* The constraint filter of generate_personalized_plan.                    *)
(***************************************************************************)
\* an allergy test that compares the allergy as written, not lowercased:
\* PoolsAreAllergenFree has to reject it
HasAllergenAsWritten(r, allergies) ==
    \E i \in DOMAIN allergies :
        IsSubstring(allergies[i], Lower(JsonDumps(Get(r, "ingredients", <<>>))))

\* any(allergy.lower() in json.dumps(r.get("ingredients", {})).lower() for allergy in allergies)
HasAllergen(r, allergies) ==
    \E i \in DOMAIN allergies :
        IsSubstring(Lower(allergies[i]), Lower(JsonDumps(Get(r, "ingredients", <<>>))))

\* a diet test without the "mixed" case: DietFilterKeepsMatches has to reject it
DietMatchesExactly(r, diet_type) == Get(r, "type", "vegetarian") = diet_type

\* r.get("type", "vegetarian") == diet_type or diet_type == "mixed"
DietMatches(r, diet_type) ==
    Get(r, "type", "vegetarian") = diet_type \/ diet_type = "mixed"

\* the condition of the list comprehension that builds `filtered`
Keeps(r, diet_type, allergies) ==
    DietMatches(r, diet_type) /\ ~HasAllergen(r, allergies)

\* a filter that loses the first recipe it keeps: FilterIsIdempotent has to reject it
FilterSkipsFirst(pool, diet_type, allergies) ==
    LET Kept(i) == Keeps(pool[i], diet_type, allergies)
        kept == SelectSeq([i \in 1..Len(pool) |-> i], Kept)
    IN  IF kept = <<>> THEN kept ELSE Tail(kept)

\* `filtered`, as the indices into `pool` of the recipes it keeps, in pool order:
\* the list holds the pool's own dicts, not copies
FilterPool(pool, diet_type, allergies) ==
    LET Kept(i) == Keeps(pool[i], diet_type, allergies)
    IN  SelectSeq([i \in 1..Len(pool) |-> i], Kept)

\* `filtered` as the list of dicts it is
ApplyFilter(pool, diet_type, allergies) ==
    LET kept == FilterPool(pool, diet_type, allergies)
    IN  [i \in DOMAIN kept |-> pool[kept[i]]]

(***************************************************************************)
(* Selection, totals and scores of one day.                                *)
(***************************************************************************)
\* a pick_recipe that draws from the whole pool every day: NoRepeatInWidePool has
\* to reject it
PickFromWholePool(recipes, pool, used_set) == pool

\* pick_recipe: the list random.choice draws from (<<>>: the pool is empty and
\* pick_recipe returns None).  pool is a sequence of indices into recipes.
pick_recipe(recipes, pool, used_set) ==
    LET Unused(i) == recipes[i].name \notin used_set
        candidates == SelectSeq(pool, Unused)
    IN  IF candidates # <<>> THEN candidates ELSE pool

\* the values a reduced fraction num/den is kept as
Fraction(num, den) ==
    LET g == Gcd(num, den) IN IF g = 0 THEN <<0, 1>> ELSE <<num \div g, den \div g>>

\* min(10.0, abs(protein_ratio - 0.3) * 100), as an exact fraction;
\* meals: the three recipe dicts of the day
calculate_nutrition_score(meals) ==
    LET total_protein == Get(meals[1], "protein", 0) + Get(meals[2], "protein", 0) + Get(meals[3], "protein", 0)
        total_carbs   == Get(meals[1], "carbs", 0) + Get(meals[2], "carbs", 0) + Get(meals[3], "carbs", 0)
        total_fat     == Get(meals[1], "fat", 0) + Get(meals[2], "fat", 0) + Get(meals[3], "fat", 0)
        denom         == total_protein + total_carbs + total_fat
        dev           == Abs(10 * total_protein - 3 * denom)
    IN  IF denom > 0
        THEN (IF dev >= denom THEN <<10, 1>> ELSE Fraction(10 * dev, denom))
        ELSE <<3, 1>>

\* min(10.0, len(new_meals) / len(current_meals) * 10), as an exact fraction
calculate_variety_score(meals, recent_list) ==
    LET current_meals == <<meals[1].name, meals[2].name, meals[3].name>>
        new_meals     == Range(current_meals) \ Range(recent_list)
    IN  Fraction(Min(10 * Len(current_meals), 10 * Cardinality(new_meals)),
                 Len(current_meals))

RECURSIVE Flatten(_)
Flatten(ss) == IF ss = <<>> THEN <<>> ELSE Head(ss) \o Flatten(Tail(ss))

\* the meal names of history[-3:], flattened; an entry's meal_plan is kept as the
\* sequence of its meals' names
get_user_meal_history_scores(history) ==
    LET n == Len(history)
        last3 == SubSeq(history, Max(1, n - 2), n)
    IN  Flatten([i \in DOMAIN last3 |-> last3[i].meal_plan])

(***************************************************************************)
(* Catalogs.                                                               *)
(***************************************************************************)
\* SimpleMealGenerator.create_sample_recipes: the catalog written in the code
create_sample_recipes ==
    [breakfast |-> <<
         [name |-> "Masala Oats",
          ingredients |-> <<<<<<"o", "a", "t", "s">>, 50>>, <<<<"v", "e", "g", "e", "t", "a", "b", "l", "e", "s">>, 100>>, <<<<"s", "p", "i", "c", "e", "s">>, 10>>, <<<<"o", "i", "l">>, 5>>>>,
          calories |-> 250, protein |-> 12, carbs |-> 40, fat |-> 6, prep_time |-> 15,
          type |-> "vegetarian"],
         [name |-> "Paneer Paratha",
          ingredients |-> <<<<<<"w", "h", "o", "l", "e", "_", "w", "h", "e", "a", "t", "_", "f", "l", "o", "u", "r">>, 80>>, <<<<"p", "a", "n", "e", "e", "r">>, 100>>, <<<<"s", "p", "i", "c", "e", "s">>, 10>>, <<<<"o", "i", "l">>, 8>>>>,
          calories |-> 380, protein |-> 18, carbs |-> 45, fat |-> 15, prep_time |-> 25,
          type |-> "vegetarian"],
         [name |-> "Egg Bhurji",
          ingredients |-> <<<<<<"e", "g", "g", "s">>, 3>>, <<<<"o", "n", "i", "o", "n">>, 50>>, <<<<"t", "o", "m", "a", "t", "o">>, 50>>, <<<<"s", "p", "i", "c", "e", "s">>, 10>>, <<<<"o", "i", "l">>, 7>>>>,
          calories |-> 280, protein |-> 20, carbs |-> 10, fat |-> 18, prep_time |-> 15,
          type |-> "non-vegetarian"] >>,
     lunch |-> <<
         [name |-> "Dal Rice with Salad",
          ingredients |-> <<<<<<"r", "i", "c", "e">>, 150>>, <<<<"d", "a", "l">>, 100>>, <<<<"v", "e", "g", "e", "t", "a", "b", "l", "e", "s">>, 200>>, <<<<"s", "p", "i", "c", "e", "s">>, 15>>, <<<<"o", "i", "l">>, 10>>>>,
          calories |-> 450, protein |-> 22, carbs |-> 75, fat |-> 12, prep_time |-> 30,
          type |-> "vegetarian"],
         [name |-> "Chicken Curry with Roti",
          ingredients |-> <<<<<<"c", "h", "i", "c", "k", "e", "n">>, 200>>, <<<<"w", "h", "o", "l", "e", "_", "w", "h", "e", "a", "t", "_", "f", "l", "o", "u", "r">>, 100>>, <<<<"s", "p", "i", "c", "e", "s">>, 20>>, <<<<"o", "i", "l">>, 15>>>>,
          calories |-> 520, protein |-> 35, carbs |-> 45, fat |-> 22, prep_time |-> 40,
          type |-> "non-vegetarian"] >>,
     dinner |-> <<
         [name |-> "Vegetable Khichdi",
          ingredients |-> <<<<<<"r", "i", "c", "e">>, 100>>, <<<<"d", "a", "l">>, 80>>, <<<<"v", "e", "g", "e", "t", "a", "b", "l", "e", "s">>, 150>>, <<<<"s", "p", "i", "c", "e", "s">>, 10>>, <<<<"g", "h", "e", "e">>, 8>>>>,
          calories |-> 380, protein |-> 15, carbs |-> 60, fat |-> 10, prep_time |-> 25,
          type |-> "vegetarian"],
         [name |-> "Grilled Fish with Vegetables",
          ingredients |-> <<<<<<"f", "i", "s", "h">>, 150>>, <<<<"v", "e", "g", "e", "t", "a", "b", "l", "e", "s">>, 200>>, <<<<"l", "e", "m", "o", "n">>, 1>>, <<<<"s", "p", "i", "c", "e", "s">>, 10>>, <<<<"o", "i", "l">>, 5>>>>,
          calories |-> 320, protein |-> 28, carbs |-> 15, fat |-> 18, prep_time |-> 20,
          type |-> "non-vegetarian"] >>]

\* data/recipes.json is not part of the sources: the catalogs the planner is run on.
\* Three breakfasts (two vegetarian), one lunch, no dinner
CatalogSmall ==
    [breakfast |-> <<
         [name |-> "Masala Oats",
          ingredients |-> <<<<<<"o", "a", "t", "s">>, 50>>, <<<<"M", "i", "l", "k">>, 100>>>>,
          calories |-> 250, protein |-> 12, carbs |-> 40, fat |-> 6, prep_time |-> 15,
          type |-> "vegetarian"],
         [name |-> "Paneer Paratha",
          ingredients |-> <<<<<<"p", "a", "n", "e", "e", "r">>, 100>>, <<<<"o", "i", "l">>, 8>>>>,
          calories |-> 380, protein |-> 18, carbs |-> 45, fat |-> 15, prep_time |-> 25,
          type |-> "vegetarian"],
         [name |-> "Egg Bhurji",
          ingredients |-> <<<<<<"e", "g", "g", "s">>, 3>>, <<<<"o", "n", "i", "o", "n">>, 50>>>>,
          calories |-> 280, protein |-> 20, carbs |-> 10, fat |-> 18, prep_time |-> 15,
          type |-> "non-vegetarian"] >>,
     lunch |-> <<
         [name |-> "Dal Rice",
          ingredients |-> <<<<<<"r", "i", "c", "e">>, 150>>, <<<<"d", "a", "l">>, 100>>>>,
          calories |-> 450, protein |-> 22, carbs |-> 75, fat |-> 12, prep_time |-> 30,
          type |-> "vegetarian"] >>,
     dinner |-> <<>>]

\* a recipe without "calories" and "type"; two lunches of one name, one with no calories
CatalogSparse ==
    [breakfast |-> <<
         [name |-> "Plain Toast",
          ingredients |-> <<<<<<"b", "r", "e", "a", "d">>, 60>>>>,
          protein |-> 4, carbs |-> 30, fat |-> 2, prep_time |-> 5] >>,
     lunch |-> <<
         [name |-> "Clear Broth",
          ingredients |-> <<<<<<"w", "a", "t", "e", "r">>, 300>>>>,
          calories |-> 0, protein |-> 0, carbs |-> 0, fat |-> 0, prep_time |-> 10,
          type |-> "vegetarian"],
         [name |-> "Clear Broth",
          ingredients |-> <<<<<<"w", "a", "t", "e", "r">>, 250>>, <<<<"s", "a", "l", "t">>, 2>>>>,
          calories |-> 40, protein |-> 2, carbs |-> 6, fat |-> 1, prep_time |-> 10,
          type |-> "vegetarian"] >>,
     dinner |-> <<
         [name |-> "Fruit Bowl",
          ingredients |-> <<<<<<"a", "p", "p", "l", "e">>, 100>>, <<<<"C", "a", "s", "h", "e", "w", " ", "M", "i", "l", "k">>, 50>>>>,
          calories |-> 350, protein |-> 5, carbs |-> 70, fat |-> 3, prep_time |-> 5,
          type |-> "vegan"] >>]

\* every recipe has 0 calories: the weekly total is 0
CatalogZero ==
    [breakfast |-> <<
         [name |-> "Black Coffee",
          ingredients |-> <<<<<<"c", "o", "f", "f", "e", "e">>, 10>>>>,
          calories |-> 0, protein |-> 0, carbs |-> 0, fat |-> 0, prep_time |-> 5,
          type |-> "vegetarian"] >>,
     lunch |-> <<
         [name |-> "Green Tea",
          ingredients |-> <<<<<<"t", "e", "a">>, 5>>>>,
          calories |-> 0, protein |-> 0, carbs |-> 0, fat |-> 0, prep_time |-> 5,
          type |-> "vegetarian"] >>,
     dinner |-> <<
         [name |-> "Clear Soup",
          ingredients |-> <<<<<<"w", "a", "t", "e", "r">>, 300>>>>,
          calories |-> 0, protein |-> 1, carbs |-> 2, fat |-> 0, prep_time |-> 10,
          type |-> "vegetarian"] >>]

\* three breakfasts of equal calories, one dinner: every day totals 1000
CatalogThree ==
    [breakfast |-> <<
         [name |-> "Idli",
          ingredients |-> <<<<<<"r", "i", "c", "e">>, 80>>>>,
          calories |-> 300, protein |-> 6, carbs |-> 40, fat |-> 1, prep_time |-> 20,
          type |-> "vegetarian"],
         [name |-> "Dosa",
          ingredients |-> <<<<<<"r", "i", "c", "e">>, 90>>, <<<<"o", "i", "l">>, 5>>>>,
          calories |-> 300, protein |-> 7, carbs |-> 50, fat |-> 8, prep_time |-> 20,
          type |-> "vegetarian"],
         [name |-> "Upma",
          ingredients |-> <<<<<<"s", "e", "m", "o", "l", "i", "n", "a">>, 70>>>>,
          calories |-> 300, protein |-> 6, carbs |-> 45, fat |-> 5, prep_time |-> 15,
          type |-> "vegetarian"] >>,
     lunch |-> <<>>,
     dinner |-> <<
         [name |-> "Khichdi",
          ingredients |-> <<<<<<"r", "i", "c", "e">>, 100>>, <<<<"d", "a", "l">>, 80>>>>,
          calories |-> 400, protein |-> 15, carbs |-> 60, fat |-> 10, prep_time |-> 25,
          type |-> "vegetarian"] >>]

\* seven breakfasts of distinct names
CatalogWide7 ==
    [breakfast |-> <<
         [name |-> "Breakfast 1",
          ingredients |-> <<<<<<"g", "r", "a", "i", "n">>, 41>>>>,
          calories |-> 210, protein |-> 10, carbs |-> 30, fat |-> 5, prep_time |-> 10,
          type |-> "vegetarian"],
         [name |-> "Breakfast 2",
          ingredients |-> <<<<<<"g", "r", "a", "i", "n">>, 42>>>>,
          calories |-> 220, protein |-> 10, carbs |-> 30, fat |-> 5, prep_time |-> 10,
          type |-> "vegetarian"],
         [name |-> "Breakfast 3",
          ingredients |-> <<<<<<"g", "r", "a", "i", "n">>, 43>>>>,
          calories |-> 230, protein |-> 10, carbs |-> 30, fat |-> 5, prep_time |-> 10,
          type |-> "vegetarian"],
         [name |-> "Breakfast 4",
          ingredients |-> <<<<<<"g", "r", "a", "i", "n">>, 44>>>>,
          calories |-> 240, protein |-> 10, carbs |-> 30, fat |-> 5, prep_time |-> 10,
          type |-> "vegetarian"],
         [name |-> "Breakfast 5",
          ingredients |-> <<<<<<"g", "r", "a", "i", "n">>, 45>>>>,
          calories |-> 250, protein |-> 10, carbs |-> 30, fat |-> 5, prep_time |-> 10,
          type |-> "vegetarian"],
         [name |-> "Breakfast 6",
          ingredients |-> <<<<<<"g", "r", "a", "i", "n">>, 46>>>>,
          calories |-> 260, protein |-> 10, carbs |-> 30, fat |-> 5, prep_time |-> 10,
          type |-> "vegetarian"],
         [name |-> "Breakfast 7",
          ingredients |-> <<<<<<"g", "r", "a", "i", "n">>, 47>>>>,
          calories |-> 270, protein |-> 10, carbs |-> 30, fat |-> 5, prep_time |-> 10,
          type |-> "vegetarian"] >>,
     lunch |-> <<>>,
     dinner |-> <<>>]

\* eight dinners of seven distinct names and equal calories: every day totals 1000
CatalogWide8 ==
    [breakfast |-> <<>>,
     lunch |-> <<>>,
     dinner |-> <<
         [name |-> "Dinner 1",
          ingredients |-> <<<<<<"r", "i", "c", "e">>, 101>>>>,
          calories |-> 400, protein |-> 11, carbs |-> 50, fat |-> 9, prep_time |-> 20,
          type |-> "vegetarian"],
         [name |-> "Dinner 2",
          ingredients |-> <<<<<<"r", "i", "c", "e">>, 102>>>>,
          calories |-> 400, protein |-> 12, carbs |-> 50, fat |-> 9, prep_time |-> 20,
          type |-> "vegetarian"],
         [name |-> "Dinner 3",
          ingredients |-> <<<<<<"r", "i", "c", "e">>, 103>>>>,
          calories |-> 400, protein |-> 13, carbs |-> 50, fat |-> 9, prep_time |-> 20,
          type |-> "vegetarian"],
         [name |-> "Dinner 4",
          ingredients |-> <<<<<<"r", "i", "c", "e">>, 104>>>>,
          calories |-> 400, protein |-> 14, carbs |-> 50, fat |-> 9, prep_time |-> 20,
          type |-> "vegetarian"],
         [name |-> "Dinner 5",
          ingredients |-> <<<<<<"r", "i", "c", "e">>, 105>>>>,
          calories |-> 400, protein |-> 15, carbs |-> 50, fat |-> 9, prep_time |-> 20,
          type |-> "vegetarian"],
         [name |-> "Dinner 6",
          ingredients |-> <<<<<<"r", "i", "c", "e">>, 106>>>>,
          calories |-> 400, protein |-> 16, carbs |-> 50, fat |-> 9, prep_time |-> 20,
          type |-> "vegetarian"],
         [name |-> "Dinner 7",
          ingredients |-> <<<<<<"r", "i", "c", "e">>, 107>>>>,
          calories |-> 400, protein |-> 17, carbs |-> 50, fat |-> 9, prep_time |-> 20,
          type |-> "vegetarian"],
         [name |-> "Dinner 1",
          ingredients |-> <<<<<<"r", "i", "c", "e">>, 108>>>>,
          calories |-> 400, protein |-> 18, carbs |-> 50, fat |-> 9, prep_time |-> 20,
          type |-> "vegetarian"] >>]

(***************************************************************************)
(* The requests made to the planner, and the histories on disk.            *)
(***************************************************************************)
\* user_preferences dicts; one lacks every key generate_personalized_plan reads
PrefsDefault == [cuisine_preference |-> "any"]

PrefsMixed ==
    [diet_type |-> "mixed", calorie_target |-> 900,
     allergies |-> << <<"M", "I", "L", "K">> >>, cuisine_preference |-> "any"]

\* a diet type no recipe is tagged with, and a zero target
PrefsKeto ==
    [diet_type |-> "keto", calorie_target |-> 0,
     allergies |-> <<>>, cuisine_preference |-> "any"]

\* a negative target; the empty allergy string is a substring of every text
PrefsNegative ==
    [diet_type |-> "vegetarian", calorie_target |-> -1000,
     allergies |-> << <<"n", "u", "t">>, <<>> >>, cuisine_preference |-> "any"]

PrefsNegativeVeg ==
    [diet_type |-> "vegetarian", calorie_target |-> -1000,
     allergies |-> << <<"n", "u", "t">> >>, cuisine_preference |-> "any"]

PrefsNonVeg ==
    [diet_type |-> "non-vegetarian", calorie_target |-> 1500,
     allergies |-> << <<"5", "0">> >>, cuisine_preference |-> "indian"]

PrefsVegan ==
    [diet_type |-> "vegan", calorie_target |-> 1200,
     allergies |-> << <<"m", "i", "l", "k">> >>, cuisine_preference |-> "any"]

PrefsVeg600 ==
    [diet_type |-> "vegetarian", calorie_target |-> 600,
     allergies |-> <<>>, cuisine_preference |-> "any"]

PrefsVeg1000 ==
    [diet_type |-> "vegetarian", calorie_target |-> 1000,
     allergies |-> <<>>, cuisine_preference |-> "any"]

Request(u, p) == [user_id |-> u, preferences |-> p]

\* memory/meal_history.json: entries of two users
HistoryTwoUsers ==
    << [user_id |-> "u2", timestamp |-> 1, meal_plan |-> <<"Masala Oats", "Dal Rice">>],
       [user_id |-> "u1", timestamp |-> 2, meal_plan |-> <<"Egg Bhurji">>],
       [user_id |-> "u2", timestamp |-> 3, meal_plan |-> <<"Fallback Dinner", "Idli">>],
       [user_id |-> "u1", timestamp |-> 4, meal_plan |-> <<"Plain Toast", "Paneer Paratha">>] >>

NoRecipes == [breakfast |-> <<>>, lunch |-> <<>>, dinner |-> <<>>]

Scenario(m, db, h, rs) == [mode |-> m, db |-> db, history |-> h, requests |-> rs]

\* what a behaviour starts from: the planner that runs, its catalog as loaded, the
\* history file, and the requests its callers make
ScenarioTable ==
    [ simple |-> Scenario("simple", NoRecipes, <<>>, {}),
      small  |-> Scenario("specialist", CatalogSmall, HistoryTwoUsers,
                     { Request("u1", PrefsVeg1000), Request("u1", PrefsMixed),
                       Request("u2", PrefsKeto), Request("u1", PrefsNegative),
                       Request("u2", PrefsNonVeg) }),
      sparse |-> Scenario("specialist", CatalogSparse, <<>>,
                     { Request("u1", PrefsVeg600), Request("u1", PrefsVegan),
                       Request("u1", PrefsNegativeVeg) }),
      zero   |-> Scenario("specialist", CatalogZero, HistoryTwoUsers,
                     { Request("u1", PrefsDefault), Request("u2", PrefsKeto),
                       Request("u1", PrefsNegativeVeg) }),
      three  |-> Scenario("specialist", CatalogThree, <<>>,
                     { Request("u1", PrefsVeg1000) }),
      none   |-> Scenario("specialist", NoRecipes, <<>>,
                     { Request("u1", PrefsDefault), Request("u1", PrefsNegativeVeg) }),
      twice  |-> Scenario("specialist", CatalogSmall, HistoryTwoUsers,
                     { Request("u1", PrefsVeg1000) }),
      wide7  |-> Scenario("specialist", CatalogWide7, <<>>,
                     { Request("u1", PrefsDefault) }),
      wide8  |-> Scenario("specialist", CatalogWide8, <<>>,
                     { Request("u1", PrefsVeg1000) }),
      api    |-> Scenario("api", NoRecipes, HistoryTwoUsers, {}),
      fresh  |-> Scenario("api", NoRecipes, <<>>, {}) ]

Scenarios == {"simple", "small", "sparse", "zero", "three", "none"}

\* the catalogs under which every returned call is logged
AuditScenarios == {"twice"}

WideScenarios == {"wide7", "wide8"}

\* the web application over a history file with entries, and over an empty one
ApiScenarios == {"api", "fresh"}

\* the users of the web application
ApiUsers == {"u1", "u2"}

\* result["meal_plan"] of generate_plan, kept as the sequence of its meals' names
ApiPlans == {<<"Masala Oats", "Dal Rice">>, <<"Egg Bhurji">>}

\* the diet types generate_weekly_plan is called with
SimpleDiets == {"vegetarian", "non-vegetarian", "vegan"}

(***************************************************************************)
(* State.                                                                  *)
(***************************************************************************)
VARIABLES
    scenario,         \* the entry of ScenarioTable this behaviour started from
    recipe_db,        \* self.recipe_db["recipes"]: slot -> list of recipe dicts
    meal_history,     \* memory/meal_history.json
    pc,               \* where generate_personalized_plan stands
    calls,            \* generate_personalized_plan calls started
    user_id,          \* the running (or last) call's arguments
    user_preferences,
    pools,            \* slot -> filtered pool, as indices into recipe_db[slot]
    used,             \* used_breakfasts, used_lunches, used_dinners
    weekly_plan,      \* the plan: its days in insertion order
    choices,          \* history variable: the indices random.choice drew, per day
    pre_plan,         \* history variable: the plan's content as _optimize_with_ai received it
    call_log,         \* history variable: the calls that returned, when audited
    simple_pc,        \* where SimpleMealGenerator.generate_weekly_plan stands
    simple_diet,      \* its diet_type argument
    simple_plan,      \* its weekly_plan
    shopping_list,    \* what generate_shopping_list returned for that plan
    clock,            \* datetime.now() of the latest history entry
    response,         \* what the latest history request of the web application returned
    ever_stored       \* history variable: every entry written to the history file, in order

specialist_vars == <<recipe_db, meal_history, pc, calls, user_id,
                     user_preferences, pools, used, weekly_plan, choices, pre_plan, call_log>>

simple_vars == <<simple_pc, simple_diet, simple_plan, shopping_list>>

memory_vars == <<clock, response, ever_stored>>

vars == <<scenario, specialist_vars, simple_vars, memory_vars>>

\* the calls a behaviour makes at most: one on the catalog of eight dinners, whose
\* week has the most orders
CallLimit == IF scenario = "wide8" THEN Min(1, MaxCalls) ELSE MaxCalls

\* which planner this process runs: "specialist" or "simple"
mode == ScenarioTable[scenario].mode

\* recipe_db as _load_recipes returned it
loaded_db == ScenarioTable[scenario].db

\* the requests made to the planner in this behaviour
requests == ScenarioTable[scenario].requests

SlotSet == Range(Slots)

NoUsed == [s \in SlotSet |-> {}]

\* the timestamp of the newest entry of a history file (0 for an empty file)
LatestTimestamp(history) ==
    IF history = <<>> THEN 0 ELSE history[Len(history)].timestamp

InitWith(sc) ==
    /\ scenario = sc
    /\ recipe_db = ScenarioTable[sc].db
    /\ meal_history = ScenarioTable[sc].history
    /\ pc = "idle"
    /\ calls = 0
    /\ user_id = "none"
    /\ user_preferences = PrefsDefault
    /\ pools = [s \in SlotSet |-> <<>>]
    /\ used = NoUsed
    /\ weekly_plan = <<>>
    /\ choices = <<>>
    /\ pre_plan = <<>>
    /\ call_log = <<>>
    /\ simple_pc = "idle"
    /\ simple_diet = "vegetarian"
    /\ simple_plan = <<>>
    /\ shopping_list = <<>>
    /\ clock = LatestTimestamp(ScenarioTable[sc].history)
    /\ response = <<>>
    /\ ever_stored = ScenarioTable[sc].history

Init == \E sc \in Scenarios : InitWith(sc)

(***************************************************************************)
(* MealPlannerSpecialist.generate_personalized_plan                        *)
(***************************************************************************)
\* the dict a meal of the plan refers to: a dict of the catalog (ref: its index in
\* the slot's list) or the plan's own fallback dict
Recipe(db, slot, meal) == IF meal.ref = 0 THEN meal.obj ELSE db[slot][meal.ref]

\* what a reader of the plan sees: every meal's dict, dereferenced
PlanView(db, plan) ==
    [d \in DOMAIN plan |->
        [plan[d] EXCEPT !.meals = [s \in SlotSet |-> Recipe(db, s, plan[d].meals[s])]]]

\* a call that goes on with the used sets the previous call left:
\* UsedSetsBelongToRun has to reject it
StartKeepsUsed(req) ==
    /\ mode = "specialist"
    /\ pc \in {"idle", "returned", "raised"}
    /\ calls < CallLimit
    /\ calls' = calls + 1
    /\ user_id' = req.user_id
    /\ user_preferences' = req.preferences
    /\ pools' = [s \in SlotSet |->
                    FilterPool(recipe_db[s],
                               Get(req.preferences, "diet_type", "vegetarian"),
                               Get(req.preferences, "allergies", <<>>))]
    /\ used' = used
    /\ weekly_plan' = <<>>
    /\ choices' = <<>>
    /\ pre_plan' = <<>>
    /\ pc' = "daily"
    /\ UNCHANGED <<scenario, memory_vars, recipe_db, meal_history, call_log, simple_vars>>

\* lines 36-64: the arguments, the empty used sets, the filtered pools
Start(req) ==
    /\ mode = "specialist"
    /\ pc \in {"idle", "returned", "raised"}
    /\ calls < CallLimit
    /\ calls' = calls + 1
    /\ user_id' = req.user_id
    /\ user_preferences' = req.preferences
    /\ pools' = [s \in SlotSet |->
                    FilterPool(recipe_db[s],
                               Get(req.preferences, "diet_type", "vegetarian"),
                               Get(req.preferences, "allergies", <<>>))]
    /\ used' = NoUsed
    /\ weekly_plan' = <<>>
    /\ choices' = <<>>
    /\ pre_plan' = <<>>
    /\ pc' = "daily"
    /\ UNCHANGED <<scenario, memory_vars, recipe_db, meal_history, call_log, simple_vars>>

\* the list random.choice draws from for a slot today
ChoiceList(slot) == pick_recipe(recipe_db[slot], pools[slot], used[slot])

\* the indices random.choice may draw; 0: pick_recipe returns None
ChoiceIndices(slot) ==
    IF ChoiceList(slot) = <<>> THEN {0} ELSE 1..Len(ChoiceList(slot))

\* pick_recipe(...) or self._create_fallback_meal(slot, "vegetarian")
Chosen(slot, j) ==
    IF j = 0 THEN [ref |-> 0, obj |-> create_fallback_meal(slot, "vegetarian")]
    ELSE [ref |-> ChoiceList(slot)[j]]

\* a pick_recipe that never adds to used_set: RepeatsOnlyAfterAllNames has to
\* reject it
UsedNotRecorded(slot, j) == used[slot]

\* a pick_recipe whose three slots share one used set: UsedSetsFrame has to reject it
UsedSharedBySlots(slot, j) ==
    LET shared == used["breakfast"] \cup used["lunch"] \cup used["dinner"]
    IN  IF j = 0 THEN shared
        ELSE shared \cup {recipe_db[slot][ChoiceList(slot)[j]].name}

\* used_set.add(choice["name"]): only a recipe of the pool is added
UsedAfter(slot, j) ==
    IF j = 0 THEN used[slot]
    ELSE used[slot] \cup {recipe_db[slot][ChoiceList(slot)[j]].name}

\* the dict _generate_daily_plan returns when random.choice draws j[slot]
generate_daily_plan(j) ==
    LET meals == [s \in SlotSet |-> Chosen(s, j[s])]
        dicts == [i \in DOMAIN Slots |-> Recipe(recipe_db, Slots[i], meals[Slots[i]])]
    IN  [meals           |-> meals,
         total_calories  |-> Get(dicts[1], "calories", DefaultCalories(Slots[1]))
                             + Get(dicts[2], "calories", DefaultCalories(Slots[2]))
                             + Get(dicts[3], "calories", DefaultCalories(Slots[3])),
         nutrition_score |-> calculate_nutrition_score(dicts),
         variety_score   |-> calculate_variety_score(
                                 dicts, get_user_meal_history_scores(meal_history))]

\* one iteration of `for i, day in enumerate(days)`
Day ==
    /\ mode = "specialist"
    /\ pc = "daily"
    /\ Len(weekly_plan) < Len(days)
    /\ \E jb \in ChoiceIndices("breakfast"), jl \in ChoiceIndices("lunch"),
          jd \in ChoiceIndices("dinner") :
          LET j == [breakfast |-> jb, lunch |-> jl, dinner |-> jd]
              daily_plan == generate_daily_plan(j)
              day == days[Len(weekly_plan) + 1]
          IN  /\ weekly_plan' = Append(weekly_plan,
                     [day |-> day, meals |-> daily_plan.meals,
                      total_calories |-> daily_plan.total_calories,
                      nutrition_score |-> daily_plan.nutrition_score,
                      variety_score |-> daily_plan.variety_score])
              /\ used' = [s \in SlotSet |-> UsedAfter(s, j[s])]
              /\ choices' = Append(choices, j)
    /\ pc' = IF Len(weekly_plan) + 1 = Len(days) THEN "optimize" ELSE "daily"
    /\ UNCHANGED <<scenario, memory_vars, recipe_db, meal_history, calls, user_id,
                   user_preferences, pools, pre_plan, call_log, simple_vars>>

(***************************************************************************)
(* MealPlannerSpecialist._optimize_with_ai                                 *)
(***************************************************************************)
RECURSIVE SumTotals(_)
\* sum(day.get("total_calories", 0) for day in weekly_plan.values())
SumTotals(plan) ==
    IF plan = <<>> THEN 0 ELSE Get(Head(plan), "total_calories", 0) + SumTotals(Tail(plan))

\* a guard that lets a zero total through: NeverRaises has to reject it
ShouldScaleFromZero(total_weekly_calories) == total_weekly_calories >= 0

\* if total_weekly_calories > 0:
ShouldScale(total_weekly_calories) == total_weekly_calories > 0

\* a scaling without the clamp at 0: NutrientsAreNonNegative has to reject it
ScaleFieldUnclamped(v, F, T) == FloatScale(v, F, T)

\* recipe[k] = max(0, int(recipe[k] * adjustment_factor))
ScaleField(v, F, T) == Max(0, FloatScale(v, F, T))

\* for k in ["calories", "protein", "carbs", "fat"]: if k in recipe: ...
ScaleRecipe(r, F, T) ==
    [k \in DOMAIN r |-> IF k \in NutrientKeys THEN ScaleField(r[k], F, T) ELSE r[k]]

\* the loop body for one meal of day d: the dict the meal refers to is updated in place
ScaleMeal(h, d, slot, F, T) ==
    LET meal == h.plan[d].meals[slot]
    IN  IF meal.ref = 0
        THEN [h EXCEPT !.plan[d].meals[slot].obj = ScaleRecipe(@, F, T)]
        ELSE [h EXCEPT !.db[slot][meal.ref] = ScaleRecipe(@, F, T)]

\* the loop body for day d
ScaleDay(h, d, F, T) ==
    LET h1 == ScaleMeal(h, d, "breakfast", F, T)
        h2 == ScaleMeal(h1, d, "lunch", F, T)
        h3 == ScaleMeal(h2, d, "dinner", F, T)
    IN  [h3 EXCEPT !.plan[d].total_calories = FloatScale(@, F, T)]

RECURSIVE ScaleWeek(_, _, _, _)
\* for day, day_plan in weekly_plan.items(), from day d on
ScaleWeek(h, d, F, T) ==
    IF d > Len(h.plan) THEN h ELSE ScaleWeek(ScaleDay(h, d, F, T), d + 1, F, T)

\* a normalization that scales by 0 whatever the weekly total:
\* ZeroTotalLeavesPlan has to reject it
NormalizeToNothing(db, plan, preferences) ==
    ScaleWeek([db |-> db, plan |-> plan], 1, 0, 1)

\* the catalog and the plan after _optimize_with_ai
optimize_with_ai(db, plan, preferences) ==
    LET total_weekly_calories == SumTotals(plan)
        target_weekly_calories == Get(preferences, "calorie_target", 2000) * 7
    IN  IF ShouldScale(total_weekly_calories)
        THEN ScaleWeek([db |-> db, plan |-> plan], 1,
                       target_weekly_calories, total_weekly_calories)
        ELSE [db |-> db, plan |-> plan]

\* target_weekly_calories / total_weekly_calories raises ZeroDivisionError
DivisionByZero(plan) == ShouldScale(SumTotals(plan)) /\ SumTotals(plan) = 0

\* lines 78-81: the normalization pass and the return; audit: log the call
Optimize(audit) ==
    /\ mode = "specialist"
    /\ pc = "optimize"
    /\ pre_plan' = PlanView(recipe_db, weekly_plan)
    /\ IF DivisionByZero(weekly_plan)
       THEN /\ pc' = "raised"
            /\ UNCHANGED <<recipe_db, weekly_plan, call_log>>
       ELSE LET h == optimize_with_ai(recipe_db, weekly_plan, user_preferences)
            IN  /\ recipe_db' = h.db
                /\ weekly_plan' = h.plan
                /\ pc' = "returned"
                /\ call_log' = IF audit
                               THEN Append(call_log,
                                        [user_id |-> user_id,
                                         user_preferences |-> user_preferences,
                                         choices |-> choices,
                                         plan |-> PlanView(h.db, h.plan)])
                               ELSE call_log
    /\ UNCHANGED <<scenario, memory_vars, meal_history, calls, user_id,
                   user_preferences, pools, used, choices, simple_vars>>

(***************************************************************************)
(* SimpleMealGenerator                                                     *)
(***************************************************************************)
\* filtered_recipes of generate_daily_meal_plan
SimpleFiltered(meal_type, diet_type) ==
    LET Kept(r) == r.type = diet_type \/ diet_type = "mixed"
    IN  SelectSeq(create_sample_recipes[meal_type], Kept)

\* the fallback dict of generate_daily_meal_plan
SimpleFallback(meal_type, diet_type) ==
    [name        |-> "Simple " \o meal_type,
     ingredients |-> << << <<"b", "a", "s", "i", "c", "_", "f", "o", "o", "d">>, 100 >> >>,
     calories    |-> 300,
     protein     |-> 10,
     carbs       |-> 40,
     fat         |-> 8,
     prep_time   |-> 10,
     type        |-> diet_type]

SimpleIndices(meal_type, diet_type) ==
    IF SimpleFiltered(meal_type, diet_type) = <<>> THEN {0}
    ELSE 1..Len(SimpleFiltered(meal_type, diet_type))

\* the dict generate_daily_meal_plan returns when random.choice draws j[meal_type]
generate_daily_meal_plan(diet_type, j) ==
    LET meals == [s \in SlotSet |->
                    IF j[s] = 0 THEN SimpleFallback(s, diet_type)
                    ELSE SimpleFiltered(s, diet_type)[j[s]]]
    IN  [meals |-> meals,
         total_calories |-> meals["breakfast"].calories + meals["lunch"].calories
                            + meals["dinner"].calories]

\* generate_weekly_plan(diet_type) is called
SimpleStart ==
    /\ mode = "simple"
    /\ simple_pc \in {"idle", "returned", "listed"}
    /\ \E diet_type \in SimpleDiets : simple_diet' = diet_type
    /\ simple_plan' = <<>>
    /\ shopping_list' = <<>>
    /\ simple_pc' = "daily"
    /\ UNCHANGED <<scenario, memory_vars, specialist_vars>>

\* one iteration of `for day in days`
SimpleDay ==
    /\ mode = "simple"
    /\ simple_pc = "daily"
    /\ Len(simple_plan) < Len(days)
    /\ \E jb \in SimpleIndices("breakfast", simple_diet),
          jl \in SimpleIndices("lunch", simple_diet),
          jd \in SimpleIndices("dinner", simple_diet) :
          LET daily == generate_daily_meal_plan(
                           simple_diet, [breakfast |-> jb, lunch |-> jl, dinner |-> jd])
          IN  simple_plan' = Append(simple_plan,
                  [day |-> days[Len(simple_plan) + 1], meals |-> daily.meals,
                   total_calories |-> daily.total_calories])
    /\ simple_pc' = IF Len(simple_plan) + 1 = Len(days) THEN "returned" ELSE "daily"
    /\ UNCHANGED <<scenario, memory_vars, specialist_vars, simple_diet, shopping_list>>

(***************************************************************************)
(* ShoppingListGenerator                                                   *)
(***************************************************************************)
\* whether the double total_quantity / T lies above the exact quotient
\* (its 53-bit significand was rounded up)
QuotientRoundsUp(total_quantity, T) ==
    LET a == FloorLog2Ratio(total_quantity, T)
        r == ShiftMod(total_quantity % T, 52 - a, T)
    IN  2 * r > T

\* the tenths f"{total_quantity/1000:.1f}" shows, for an integral total >= 1000:
\* the double quotient rounded to one decimal, ties to even.  A total ending in
\* 50 is a tie only when total/1000 is a double (250 divides it); otherwise the
\* side the double fell on decides.
KgTenths(total_quantity) ==
    LET q == total_quantity \div 100
        r == total_quantity % 100
    IN  IF r < 50 THEN q
        ELSE IF r > 50 THEN q + 1
        ELSE IF total_quantity % 250 = 0 THEN (IF q % 2 = 0 THEN q ELSE q + 1)
        ELSE IF QuotientRoundsUp(total_quantity, 1000) THEN q + 1 ELSE q

\* formatted_list[ingredient] for an integral total_quantity >= 0
FormatQuantity(total_quantity) ==
    IF total_quantity >= 1000
    THEN Decimal(KgTenths(total_quantity) \div 10) \o <<".">>
         \o Decimal(KgTenths(total_quantity) % 10) \o <<" ", "k", "g">>
    ELSE Decimal(total_quantity) \o <<" ", "g", "r", "a", "m", "s">>

\* an accumulation that keeps the last quantity only: ShoppingListTotals has to
\* reject it
SetQuantity(list, ingredient, quantity) ==
    [list @@ (ingredient :> 0) EXCEPT ![ingredient] = quantity]

\* shopping_list[ingredient] += quantity on a defaultdict(float): a missing key
\* is entered with 0 first
AddQuantity(list, ingredient, quantity) ==
    [list @@ (ingredient :> 0) EXCEPT ![ingredient] = @ + quantity]

(* The three loops.  Each iteration's dict is computed before the next one is   *)
(* entered, as Python computes it: the guards below read it first.  They hold   *)
(* always, since no statement removes a key.                                    *)
RECURSIVE AddIngredients(_, _, _)
\* `for ingredient, quantity in recipe.get('ingredients', {}).items()`, from the
\* k-th item on
AddIngredients(list, items, k) ==
    IF k > Len(items) THEN list
    ELSE LET added == AddQuantity(list, items[k][1], items[k][2])
         IN  IF items[k][1] \in DOMAIN added
             THEN AddIngredients(added, items, k + 1)
             ELSE list

RECURSIVE AddMeals(_, _, _)
\* `for meal_type, recipe in day_plan['meals'].items()`, from the k-th slot on
AddMeals(list, meals, k) ==
    IF k > Len(Slots) THEN list
    ELSE LET added == AddIngredients(list, Get(meals[Slots[k]], "ingredients", <<>>), 1)
         IN  IF DOMAIN list \subseteq DOMAIN added
             THEN AddMeals(added, meals, k + 1)
             ELSE list

RECURSIVE AddDays(_, _, _)
\* `for day, day_plan in weekly_plan.items()`, from the k-th day on
AddDays(list, plan, k) ==
    IF k > Len(plan) THEN list
    ELSE LET added == AddMeals(list, plan[k].meals, 1)
         IN  IF DOMAIN list \subseteq DOMAIN added
             THEN AddDays(added, plan, k + 1)
             ELSE list

\* ShoppingListGenerator.generate_shopping_list(weekly_plan)
generate_shopping_list(plan) ==
    LET totals == AddDays(<<>>, plan, 1)
    IN  [ingredient \in DOMAIN totals |-> FormatQuantity(totals[ingredient])]

\* _shopping_agent: the workflow turns the week it planned into a shopping list
Shopping ==
    /\ mode = "simple"
    /\ simple_pc = "returned"
    /\ shopping_list' = generate_shopping_list(simple_plan)
    /\ simple_pc' = "listed"
    /\ UNCHANGED <<scenario, memory_vars, specialist_vars, simple_diet, simple_plan>>

(***************************************************************************)
(* The history file memory/meal_history.json and the web application.      *)
(* A timestamp is datetime.now().isoformat(); the model keeps the instant  *)
(* as a number, which the text names one to one.                           *)
(***************************************************************************)
\* history[-500:]
LastEntries(history, n) == SubSeq(history, Max(1, Len(history) - n + 1), Len(history))

\* the feedback generate_plan saves with every plan
AutoSaved == [rating |-> 0, comments |-> "auto saved"]

\* the list AdvancedMemoryTools.save_meal_feedback writes back
save_meal_feedback(history, uid, timestamp, meal_plan, feedback) ==
    LET entry == [user_id |-> uid, timestamp |-> timestamp,
                  meal_plan |-> meal_plan, feedback |-> feedback]
        appended == Append(history, entry)
    IN  IF Len(appended) > HistoryLimit THEN LastEntries(appended, HistoryLimit)
        ELSE appended

\* POST /api/meal-plan/generate: the plan made for the user is saved to the history
GeneratePlan ==
    /\ mode = "api"
    /\ Len(ever_stored) < Len(ScenarioTable[scenario].history) + MaxSaves
    /\ clock' = clock + 1
    /\ \E uid \in ApiUsers, meal_plan \in ApiPlans :
          /\ meal_history' = save_meal_feedback(meal_history, uid, clock', meal_plan, AutoSaved)
          /\ ever_stored' = Append(ever_stored,
                 [user_id |-> uid, timestamp |-> clock',
                  meal_plan |-> meal_plan, feedback |-> AutoSaved])
    /\ UNCHANGED <<scenario, recipe_db, pc, calls, user_id, user_preferences, pools, used,
                   weekly_plan, choices, pre_plan, call_log, simple_vars, response>>

Reverse(s) == [i \in 1..Len(s) |-> s[Len(s) + 1 - i]]

\* GET /api/meal-plan/history/{user_id}: the user's entries, newest first
GetHistory ==
    /\ mode = "api"
    /\ \E uid \in ApiUsers :
          LET OfUser(h) == h.user_id = uid
          IN  response' = Reverse(SelectSeq(meal_history, OfUser))
    /\ UNCHANGED <<scenario, specialist_vars, simple_vars, clock, ever_stored>>

\* DELETE /api/meal-plan/history/{user_id}/{timestamp}
DeleteHistoryItem ==
    /\ mode = "api"
    /\ \E uid \in ApiUsers, timestamp \in 1..(clock + 1) :
          LET Kept(item) == ~(item.user_id = uid /\ item.timestamp = timestamp)
          IN  meal_history' = SelectSeq(meal_history, Kept)
    /\ response' = [success |-> TRUE, removed |-> TRUE]
    /\ UNCHANGED <<scenario, recipe_db, pc, calls, user_id, user_preferences, pools, used,
                   weekly_plan, choices, pre_plan, call_log, simple_vars, clock, ever_stored>>

(***************************************************************************)
(* Specifications.                                                         *)
(***************************************************************************)
StartAny == \E req \in requests : Start(req)

Return == Optimize(FALSE)

\* the return of a call whose arguments, draws and result are logged
ReturnAudited == Optimize(TRUE)

Next == StartAny \/ Day \/ Return \/ SimpleStart \/ SimpleDay \/ Shopping

Spec == Init /\ [][Next]_vars

\* the planner over catalogs with at least 7 recipes in a slot
InitWide == \E sc \in WideScenarios : InitWith(sc)

NextPlanner == StartAny \/ Day \/ Return

SpecWide == InitWide /\ [][NextPlanner]_vars

\* the planner with every returned call logged
InitAudit == \E sc \in AuditScenarios : InitWith(sc)

NextAudit == StartAny \/ Day \/ ReturnAudited

SpecAudit == InitAudit /\ [][NextAudit]_vars

\* the web application's history requests
InitApi == \E sc \in ApiScenarios : InitWith(sc)

NextApi == GeneratePlan \/ GetHistory \/ DeleteHistoryItem

SpecApi == InitApi /\ [][NextApi]_vars

(***************************************************************************)
(* Properties.                                                             *)
(***************************************************************************)
\* the plan's day keys, in insertion order
DayKeys(plan) == [i \in DOMAIN plan |-> plan[i].day]

\* a dict that has at least a name
IsRecipe(r) == "name" \in DOMAIN r /\ r.name \in STRING

\* C1: the weekly plan returned by generate_personalized_plan, and the one returned
\* by SimpleMealGenerator.generate_weekly_plan, has exactly the 7 day keys
\* Monday..Sunday in calendar order, and each day has exactly the three slots
\* breakfast, lunch and dinner, each holding a recipe.
WeekIsComplete ==
    /\ pc = "returned" =>
         /\ DayKeys(weekly_plan) = <<"Monday", "Tuesday", "Wednesday", "Thursday",
                                     "Friday", "Saturday", "Sunday">>
         /\ \A i \in DOMAIN weekly_plan :
              /\ DOMAIN weekly_plan[i].meals = {"breakfast", "lunch", "dinner"}
              /\ \A s \in DOMAIN weekly_plan[i].meals :
                   LET meal == weekly_plan[i].meals[s]
                   IN  /\ meal.ref \in 0..Len(recipe_db[s])
                       /\ IsRecipe(Recipe(recipe_db, s, meal))
    /\ simple_pc = "returned" =>
         /\ DayKeys(simple_plan) = <<"Monday", "Tuesday", "Wednesday", "Thursday",
                                     "Friday", "Saturday", "Sunday">>
         /\ \A i \in DOMAIN simple_plan :
              /\ DOMAIN simple_plan[i].meals = {"breakfast", "lunch", "dinner"}
              /\ \A s \in DOMAIN simple_plan[i].meals :
                   IsRecipe(simple_plan[i].meals[s])

\* a call of generate_personalized_plan has returned a plan that holds both a
\* recipe of the catalog and a fallback recipe
WeekIsCompleteReached ==
    /\ pc = "returned"
    /\ Len(weekly_plan) = 7
    /\ \E i \in DOMAIN weekly_plan, s \in SlotSet : weekly_plan[i].meals[s].ref = 0
    /\ \E i \in DOMAIN weekly_plan, s \in SlotSet : weekly_plan[i].meals[s].ref > 0

\* generate_weekly_plan has returned a week that holds a fallback recipe
SimpleWeekReached ==
    /\ simple_pc = "returned"
    /\ Len(simple_plan) = 7
    /\ \E i \in DOMAIN simple_plan : simple_plan[i].meals["lunch"].name = "Simple lunch"

\* the names of the recipes of a slot's filtered pool
PoolNames(slot) == {recipe_db[slot][pools[slot][i]].name : i \in DOMAIN pools[slot]}

\* the names a slot holds, day by day, in the days planned so far
SlotNames(slot) ==
    [i \in DOMAIN weekly_plan |-> Recipe(recipe_db, slot, weekly_plan[i].meals[slot]).name]

\* C2: in one run of generate_personalized_plan, for every meal slot whose filtered
\* pool has at least 7 recipes with distinct names, the recipes chosen for that slot
\* across Monday..Sunday (and across the days planned so far, while the run is in
\* its loop) have pairwise different names.
NoRepeatInWidePool ==
    \A s \in SlotSet :
        Cardinality(PoolNames(s)) >= 7 =>
            \A i, j \in DOMAIN weekly_plan :
                i # j => SlotNames(s)[i] # SlotNames(s)[j]

\* a call has returned a week drawn from a pool of 8 recipes with 7 distinct names,
\* the second recipe of the repeated name among the 7 chosen
NoRepeatInWidePoolReached ==
    /\ pc = "returned"
    /\ Len(weekly_plan) = 7
    /\ Len(pools["dinner"]) = 8
    /\ Cardinality(PoolNames("dinner")) = 7
    /\ \E i \in DOMAIN weekly_plan : weekly_plan[i].meals["dinner"].ref = 8

\* C3: in one run of generate_personalized_plan, for every meal slot whose non-empty
\* filtered pool has n < 7 distinct names, the first n days use n different names
\* and day n+1 repeats one of them: no name repeats before every distinct name of
\* the pool has been chosen once.
RepeatsOnlyAfterAllNames ==
    \A s \in SlotSet :
        LET n == Cardinality(PoolNames(s))
        IN  (1 <= n /\ n < 7) =>
              /\ \A i, j \in DOMAIN weekly_plan :
                     (i < j /\ j <= n) => SlotNames(s)[i] # SlotNames(s)[j]
              /\ Len(weekly_plan) >= n + 1 =>
                     \E i \in 1..n : SlotNames(s)[i] = SlotNames(s)[n + 1]

\* a call has returned a week whose breakfasts come from a pool of 3 names: three
\* different names on Monday..Wednesday, the first repeat on Thursday
RepeatsOnlyAfterAllNamesReached ==
    /\ pc = "returned"
    /\ Len(weekly_plan) = 7
    /\ Cardinality(PoolNames("breakfast")) = 3
    /\ Cardinality({SlotNames("breakfast")[i] : i \in 1..3}) = 3
    /\ SlotNames("breakfast")[4] \in {SlotNames("breakfast")[i] : i \in 1..3}

\* the allergies of the running (or last) call
Allergies == Get(user_preferences, "allergies", <<>>)

\* C4: for every recipe r kept in a filtered slot pool by generate_personalized_plan
\* and every allergy string a of the preferences, the lowercased a is not a
\* substring of the lowercased serialized ingredients of r.
PoolsAreAllergenFree ==
    \A s \in SlotSet : \A i \in DOMAIN pools[s] : \A a \in DOMAIN Allergies :
        LET r == recipe_db[s][pools[s][i]]
        IN  ~IsSubstring(Lower(Allergies[a]),
                         Lower(JsonDumps(Get(r, "ingredients", <<>>))))

\* the filter has run with an allergy written in capitals: it kept a recipe and
\* dropped one of the right diet whose ingredient differs from the allergy in case
PoolsAreAllergenFreeReached ==
    /\ pc = "daily"
    /\ \E a \in DOMAIN Allergies : Allergies[a] # <<>> /\ Lower(Allergies[a]) # Allergies[a]
    /\ pools["breakfast"] # <<>>
    /\ \E i \in DOMAIN recipe_db["breakfast"] :
          LET r == recipe_db["breakfast"][i]
          IN  /\ i \notin Range(pools["breakfast"])
              /\ DietMatches(r, Get(user_preferences, "diet_type", "vegetarian"))
              /\ ~HasAllergenAsWritten(r, Allergies)

\* calorie_target * 7 of the running (or last) call
TargetWeekly == Get(user_preferences, "calorie_target", 2000) * 7

\* C5: after the normalization pass, whenever the pre-normalization weekly total of
\* total_calories was not zero, the sum of the 7 days' total_calories differs from
\* calorie_target * 7 by at most 7.
TotalMeetsTarget ==
    (pc = "returned" /\ SumTotals(pre_plan) # 0) =>
        Abs(SumTotals(weekly_plan) - TargetWeekly) <= 7

\* a call has returned a week that was scaled and whose days lost calories to
\* truncation
TotalMeetsTargetReached ==
    /\ pc = "returned"
    /\ Len(weekly_plan) = 7
    /\ SumTotals(pre_plan) > 0
    /\ SumTotals(pre_plan) # TargetWeekly
    /\ Abs(SumTotals(weekly_plan) - TargetWeekly) >= 3

\* C6: normalization never changes the recipe catalog: after any number of
\* generate_personalized_plan calls on one planner, every catalog recipe's
\* calories, protein, carbs and fat equal their values at load time.
CatalogKeepsLoadedValues ==
    \A s \in SlotSet : \A i \in DOMAIN recipe_db[s] :
        \A k \in NutrientKeys \cap DOMAIN loaded_db[s][i] :
            recipe_db[s][i][k] = loaded_db[s][i][k]

\* C7: two calls on the same planner with the same preferences, the same history
\* and the same sequence of random choices return equal weekly plans.
SameInputsSamePlan ==
    \A i, j \in DOMAIN call_log :
        ( /\ call_log[i].user_preferences = call_log[j].user_preferences
          /\ call_log[i].choices = call_log[j].choices )
        => call_log[i].plan = call_log[j].plan

\* the nutrient fields of the plan's recipes, as the plan's reader sees them
PlanNutrients ==
    UNION { {Recipe(recipe_db, s, weekly_plan[i].meals[s])[k] :
                k \in NutrientKeys \cap DOMAIN Recipe(recipe_db, s, weekly_plan[i].meals[s])} :
            i \in DOMAIN weekly_plan, s \in SlotSet }

\* C8: after the normalization pass, in every day and every slot of the plan, none
\* of the recipe's calories, protein, carbs and fat fields is negative, for every
\* calorie target including zero and negative ones.
NutrientsAreNonNegative ==
    pc = "returned" => \A v \in PlanNutrients : v >= 0

\* a call with a negative calorie target has returned a week that was scaled: its
\* recipes had calories and now have none
NutrientsAreNonNegativeReached ==
    /\ pc = "returned"
    /\ Len(weekly_plan) = 7
    /\ TargetWeekly < 0
    /\ SumTotals(pre_plan) > 0
    /\ PlanNutrients = {0}

\* the fields of a fallback recipe
FallbackFields ==
    {"name", "ingredients", "calories", "protein", "carbs", "fat", "prep_time", "type"}

\* the name of a slot's fallback recipe
FallbackName(slot) ==
    CASE slot = "breakfast" -> "Fallback Breakfast"
      [] slot = "lunch"     -> "Fallback Lunch"
      [] slot = "dinner"    -> "Fallback Dinner"

\* C9: when the filtered pool of a slot is empty, generation does not fail and on
\* each of the 7 days that slot holds the fallback recipe: the name is 'Fallback
\* Breakfast', 'Fallback Lunch' or 'Fallback Dinner' according to the slot, and the
\* field set is the same on every day.
EmptyPoolGivesFallback ==
    \A s \in SlotSet :
        (pc \in {"daily", "optimize", "returned", "raised"} /\ pools[s] = <<>>) =>
            /\ pc # "raised"
            /\ \A i \in DOMAIN weekly_plan :
                  LET r == Recipe(recipe_db, s, weekly_plan[i].meals[s])
                  IN  /\ weekly_plan[i].meals[s].ref = 0
                      /\ r.name = FallbackName(s)
                      /\ DOMAIN r = FallbackFields

\* a call whose three pools were empty has returned its 7 days
EmptyPoolGivesFallbackReached ==
    /\ pc = "returned"
    /\ Len(weekly_plan) = 7
    /\ \A s \in SlotSet : pools[s] = <<>>
    /\ \A s \in SlotSet : loaded_db[s] # <<>>

NeverRaisesOtherInputsReached ==
    /\ pc = "returned"
    /\ Len(weekly_plan) = 7
    /\ \/ Get(user_preferences, "diet_type", "vegetarian") = "keto" /\ TargetWeekly = 0
       \/ TargetWeekly < 0

\* the diet type of the running (or last) call
DietType == Get(user_preferences, "diet_type", "vegetarian")

\* C11: the constraint filter is idempotent: applying the diet/allergy filter of
\* generate_personalized_plan to an already filtered pool returns the same sequence
\* of recipes, in the same order.
FilterIsIdempotent ==
    \A s \in SlotSet :
        LET once == ApplyFilter(recipe_db[s], DietType, Allergies)
        IN  ApplyFilter(once, DietType, Allergies) = once

\* the filter has run on a slot of three recipes, of which it kept two and dropped
\* one of the right diet for an allergy
FilterIsIdempotentReached ==
    /\ pc = "daily"
    /\ Len(recipe_db["breakfast"]) = 3
    /\ Len(pools["breakfast"]) = 2
    /\ ApplyFilter(recipe_db["breakfast"], DietType, Allergies)
         = [i \in 1..2 |-> recipe_db["breakfast"][pools["breakfast"][i]]]
    /\ \E i \in DOMAIN recipe_db["breakfast"] :
          /\ DietMatches(recipe_db["breakfast"][i], DietType)
          /\ HasAllergen(recipe_db["breakfast"][i], Allergies)

\* the dict a meal of the returned plan refers to
Meal(i, slot) == Recipe(recipe_db, slot, weekly_plan[i].meals[slot])

\* C12: when the pre-normalization weekly total is non-zero, normalization applies
\* the single factor targetWeekly/totalWeekly exactly once to every recipe instance
\* of the plan: for each day and slot, each of calories, protein, carbs and fat ends
\* as max(0, floor(v * factor)) where v is that recipe's value before
\* normalization, also when the same recipe was selected on several days.
ScaledExactlyOnce ==
    (pc = "returned" /\ SumTotals(pre_plan) # 0) =>
        \A i \in DOMAIN weekly_plan : \A s \in SlotSet :
            \A k \in NutrientKeys \cap DOMAIN pre_plan[i].meals[s] :
                Meal(i, s)[k] = ScaleField(pre_plan[i].meals[s][k],
                                           TargetWeekly, SumTotals(pre_plan))

\* the sum of the calories fields of a day's three recipes
MealCalories(i) ==
    Meal(i, "breakfast").calories + Meal(i, "lunch").calories + Meal(i, "dinner").calories

\* C13: after normalization, each day's total_calories and the sum of that day's
\* three recipes' calories fields differ by at most 2.
DayTotalMatchesMeals ==
    pc = "returned" =>
        \A i \in DOMAIN weekly_plan :
            (\A s \in SlotSet : "calories" \in DOMAIN Meal(i, s)) =>
                Abs(weekly_plan[i].total_calories - MealCalories(i)) <= 2

\* C14: every meal of the plan returned by generate_personalized_plan, fallback
\* recipes included, is free of the user's allergens: for every day, slot and
\* allergy string a, the lowercased a is not a substring of that meal's lowercased
\* serialized ingredients.
PlanIsAllergenFree ==
    pc = "returned" =>
        \A i \in DOMAIN weekly_plan : \A s \in SlotSet : \A a \in DOMAIN Allergies :
            ~IsSubstring(Lower(Allergies[a]),
                         Lower(JsonDumps(Get(Meal(i, s), "ingredients", <<>>))))

\* C15: the fallback recipe produced for a slot with an empty pool is built for the
\* requested diet type: its diet-type tag equals the diet_type of the user's
\* preferences.
FallbackHasRequestedDiet ==
    \A i \in DOMAIN weekly_plan : \A s \in SlotSet :
        weekly_plan[i].meals[s].ref = 0 => Meal(i, s).type = DietType

\* C16: each slot selection changes only its own used set: a non-fallback choice
\* adds exactly the chosen recipe's name to that slot's used set and leaves the
\* other two slots' used sets unchanged, and a fallback choice leaves all three used
\* sets unchanged.  Stated on the step that plans a day: each slot's used set after
\* the step is its set before, plus the name chosen for that slot if it came from
\* the pool.
UsedSetsFrame ==
    [][ Len(weekly_plan') = Len(weekly_plan) + 1 =>
          \A s \in SlotSet :
              LET meal == weekly_plan'[Len(weekly_plan')].meals[s]
              IN  used'[s] = IF meal.ref = 0 THEN used[s]
                             ELSE used[s] \cup {recipe_db[s][meal.ref].name} ]_vars

\* a day has been planned with a breakfast and a lunch from their pools and a
\* fallback dinner: the first two used sets hold one name each, not the same one,
\* and the third is empty
UsedSetsFrameReached ==
    /\ pc = "daily"
    /\ Len(weekly_plan) = 1
    /\ weekly_plan[1].meals["dinner"].ref = 0
    /\ used["breakfast"] = {Meal(1, "breakfast").name}
    /\ used["lunch"] = {Meal(1, "lunch").name}
    /\ used["breakfast"] # used["lunch"]
    /\ used["dinner"] = {}

\* the history entries of one user
OwnHistory(history, u) ==
    LET Own(h) == h.user_id = u
    IN  SelectSeq(history, Own)

\* C17: the variety score of a day counts as recent only meal names from the last 3
\* history entries of the user the plan is generated for: history entries of other
\* users never change the variety_score of that user's plan.
VarietyCountsOwnHistory ==
    \A i \in DOMAIN weekly_plan :
        weekly_plan[i].variety_score =
            calculate_variety_score(
                <<Meal(i, "breakfast"), Meal(i, "lunch"), Meal(i, "dinner")>>,
                get_user_meal_history_scores(OwnHistory(meal_history, user_id)))

\* the names a run has chosen from a slot's pool so far
NamesChosen(slot) ==
    {Meal(i, slot).name : i \in {d \in DOMAIN weekly_plan : weekly_plan[d].meals[slot].ref # 0}}

ZeroTotalLeavesPlan ==
    (pc \in {"returned", "raised"} /\ SumTotals(pre_plan) = 0) =>
        /\ pc = "returned"
        /\ PlanView(recipe_db, weekly_plan) = pre_plan

\* a call with a negative target has returned a week of 7 days whose total was 0 and
\* whose recipes have nutrients other than 0
ZeroTotalLeavesPlanReached ==
    /\ pc = "returned"
    /\ Len(pre_plan) = 7
    /\ SumTotals(pre_plan) = 0
    /\ TargetWeekly < 0
    /\ \E v \in PlanNutrients : v > 0

\* a recipe's diet-type tag; a recipe without one counts as vegetarian
Tag(r) == Get(r, "type", "vegetarian")

\* the recipes of the built-in catalog with a given tag
SampleWithTag(slot, diet_type) ==
    {r \in Range(create_sample_recipes[slot]) : r.type = diet_type}

\* C20: the diet filter keeps a recipe if and only if the recipe's diet-type tag
\* equals the requested diet_type or the requested diet_type is "mixed" (allergies
\* aside); consequently a diet_type equal to no recipe's tag yields an empty pool
\* for every slot and a plan made only of fallback recipes.  For
\* SimpleMealGenerator: a slot holds a recipe of the requested tag, or the fallback
\* when the catalog has none.
DietFilterKeepsMatches ==
    /\ pc \in {"daily", "optimize", "returned"} =>
          /\ \A s \in SlotSet : \A i \in DOMAIN recipe_db[s] :
                ~HasAllergen(recipe_db[s][i], Allergies) =>
                    ( i \in Range(pools[s])
                      <=> (Tag(recipe_db[s][i]) = DietType \/ DietType = "mixed") )
          /\ ( /\ DietType # "mixed"
               /\ \A s \in SlotSet : \A i \in DOMAIN recipe_db[s] :
                     Tag(recipe_db[s][i]) # DietType )
             => /\ \A s \in SlotSet : pools[s] = <<>>
                /\ \A i \in DOMAIN weekly_plan : \A s \in SlotSet :
                      weekly_plan[i].meals[s].ref = 0
    /\ \A i \in DOMAIN simple_plan : \A s \in SlotSet :
          IF SampleWithTag(s, simple_diet) # {}
          THEN simple_plan[i].meals[s] \in SampleWithTag(s, simple_diet)
          ELSE simple_plan[i].meals[s].name = "Simple " \o s

\* a call whose diet_type is the tag of no recipe has returned a week made of
\* fallback recipes, on a catalog that has breakfasts and lunches
DietFilterKeepsMatchesReached ==
    /\ pc = "returned"
    /\ Len(weekly_plan) = 7
    /\ DietType = "keto"
    /\ recipe_db["breakfast"] # <<>> /\ recipe_db["lunch"] # <<>>
    /\ \A i \in DOMAIN weekly_plan : \A s \in SlotSet : weekly_plan[i].meals[s].ref = 0

\* a call with diet_type "mixed" has kept breakfasts of two tags
DietFilterMixedReached ==
    /\ pc = "daily"
    /\ DietType = "mixed"
    /\ Cardinality({Tag(recipe_db["breakfast"][pools["breakfast"][i]]) :
                        i \in DOMAIN pools["breakfast"]}) = 2

\* the ingredient names of the simple week's recipes
WeekIngredients ==
    UNION { {simple_plan[i].meals[s].ingredients[k][1] :
                k \in DOMAIN simple_plan[i].meals[s].ingredients} :
            i \in DOMAIN simple_plan, s \in SlotSet }

RECURSIVE QuantityIn(_, _, _)
\* the quantity of an ingredient in the first k items of a recipe's ingredients
QuantityIn(items, name, k) ==
    IF k = 0 THEN 0
    ELSE (IF items[k][1] = name THEN items[k][2] ELSE 0) + QuantityIn(items, name, k - 1)

\* the quantity of an ingredient in the three recipes of day i
DayQuantity(i, name) ==
    LET In(s) == QuantityIn(simple_plan[i].meals[s].ingredients, name,
                            Len(simple_plan[i].meals[s].ingredients))
    IN  In("breakfast") + In("lunch") + In("dinner")

RECURSIVE WeekQuantity(_, _)
\* the quantity of an ingredient in the recipes of the first i days
WeekQuantity(i, name) ==
    IF i = 0 THEN 0 ELSE DayQuantity(i, name) + WeekQuantity(i - 1, name)

\* the sum of an ingredient's quantities over the week's 21 recipes
WeekTotal(name) == WeekQuantity(Len(simple_plan), name)

\* C21: the shopping list of a week has exactly one entry per ingredient name
\* that occurs in a recipe of the week; the entry is the ingredient's quantity
\* summed over all 21 recipes (a recipe eaten on k days counts k times), written
\* in kg with one decimal, within half a tenth of the sum, when the sum is at
\* least 1000, and as the whole number of grams otherwise.
ShoppingListTotals ==
    simple_pc = "listed" =>
        /\ Len(simple_plan) = 7
        /\ DOMAIN shopping_list = WeekIngredients
        /\ \A name \in DOMAIN shopping_list :
              LET total == WeekTotal(name)
              IN  IF total >= 1000
                  THEN \E t \in (total \div 100)..(total \div 100 + 1) :
                          /\ Abs(100 * t - total) <= 50
                          /\ shopping_list[name] =
                                Decimal(t \div 10) \o <<".">> \o Decimal(t % 10)
                                \o <<" ", "k", "g">>
                  ELSE shopping_list[name] =
                          Decimal(total) \o <<" ", "g", "r", "a", "m", "s">>

\* a shopping list was made of a week that eats one breakfast on several days and
\* another on others; it has an entry in kg whose sum ends in 50 and an entry in
\* grams
ShoppingListTotalsReached ==
    /\ simple_pc = "listed"
    /\ \E i, j \in DOMAIN simple_plan :
          /\ i # j
          /\ simple_plan[i].meals["breakfast"].name
                = simple_plan[j].meals["breakfast"].name
    /\ \E i, j \in DOMAIN simple_plan :
          simple_plan[i].meals["breakfast"].name
             # simple_plan[j].meals["breakfast"].name
    /\ \E name \in DOMAIN shopping_list :
          WeekTotal(name) >= 1000 /\ WeekTotal(name) % 100 = 50
    /\ \E name \in DOMAIN shopping_list : WeekTotal(name) < 1000

RECURSIVE IsSubsequence(_, _)
\* the entries of s occur in t, whole and in the order of s
IsSubsequence(s, t) ==
    IF s = <<>> THEN TRUE
    ELSE IF t = <<>> THEN FALSE
    ELSE IF Head(s) = Head(t) THEN IsSubsequence(Tail(s), Tail(t))
    ELSE IsSubsequence(s, Tail(t))

\* C22: the history file is an append-only log: every entry ever written to it is
\* still in it, unchanged, and the entries stand in the order they were written.
HistoryIsAppendOnly == IsSubsequence(ever_stored, meal_history)

=============================================================================
